---- MODULE Spec2Model ----
(***************************************************************************)
(* Inventory service (app.js): an in-memory list of items mirrored to      *)
(* inventory.json and a directory of photo blobs, served by Express        *)
(* handlers.  Node runs each handler's synchronous block atomically; a     *)
(* handler gives up control only at an await (multer's upload before the   *)
(* handler, fs.writeFile in saveInventory, fs.unlink, fs.readFile).  Each  *)
(* action below is one such synchronous block or one I/O completion.       *)
(*                                                                         *)
(* Text is a sequence of tokens; " " is the whitespace token trim() drops. *)
(* A photo filename is the number multer's generator drew; 0 is null.      *)
(***************************************************************************)
EXTENDS Integers, Sequences, FiniteSets, TLC

\* Requests the server accepts in a run.
MaxRequests == 2

\* Connections served at the same time: two handlers can overlap at their awaits.
Procs == {1, 2}

VARIABLES
  inventory,  \* let inventory = []            (app.js:45)
  disk,       \* content of INVENTORY_FILE     (app.js:30)
  photos,     \* files present in PHOTOS_DIR   (app.js:31)
  nextFile,   \* names multer has generated so far
  req,        \* per connection: the request being served and where it is
  started,    \* requests accepted so far
  last,       \* observation only: the response sent most recently
  hist        \* observation only: what has happened so far

vars == <<inventory, disk, photos, nextFile, req, started, last, hist>>

----------------------------------------------------------------------------
\* Values

Null == 0
NaN == 0 - 1

None == [present |-> FALSE, val |-> <<>>]
Some(v) == [present |-> TRUE, val |-> v]

NoItem == [id |-> 0, inventory_name |-> <<>>, description |-> <<>>, photoFilename |-> Null]

\* `/inventory/${id}/photo`
buildPhotoUrl(id) == <<"/inventory/", ToString(id), "/photo">>

\* ` [Photo: ${buildPhotoUrl(item.id)}]`
LinkText(id) == <<" ", "[Photo: ">> \o buildPhotoUrl(id) \o <<"]">>

\* String.prototype.trim
RECURSIVE TrimLeft(_)
TrimLeft(s) == IF s # <<>> /\ Head(s) = " " THEN TrimLeft(Tail(s)) ELSE s

RECURSIVE TrimRight(_)
TrimRight(s) ==
  IF s # <<>> /\ s[Len(s)] = " " THEN TrimRight(SubSeq(s, 1, Len(s) - 1)) ELSE s

Trim(s) == TrimRight(TrimLeft(s))

\* String.prototype.includes
Includes_Never(s, t) == FALSE

Includes(s, t) ==
  \E i \in 0..(Len(s) - Len(t)) : SubSeq(s, i + 1, i + Len(t)) = t

\* JS truthiness of an optional string: undefined and '' are falsy
Truthy(x) == x.present /\ x.val # <<>>

----------------------------------------------------------------------------
\* Requests the clients send

NameInputs == {None, Some(<<>>), Some(<<" ">>), Some(<<" ", "a", " ">>)}

DescInputs == {None, Some(<<"d">>), Some(<<" ", "d">> \o LinkText(1) \o LinkText(1))}

FlagInputs == {None, Some(<<>>), Some(<<"on">>)}

IdInputs == {NaN, 1, 2}

----------------------------------------------------------------------------
\* Helpers of app.js

\* JSON.stringify(inventory, null, 2): the fields of each item in a fixed order
Stringify(inv) ==
  [i \in 1..Len(inv) |->
     <<inv[i].id, inv[i].inventory_name, inv[i].description, inv[i].photoFilename>>]

Written(text) == [state |-> "written", text |-> text]
Partial == [state |-> "partial", text |-> <<>>]

MaxId_Zero(inv) == 0

RECURSIVE MaxId(_)
MaxId(inv) ==
  IF Len(inv) = 1 THEN inv[1].id
  ELSE LET m == MaxId(Tail(inv)) IN IF inv[1].id > m THEN inv[1].id ELSE m

generateId_NoIncrement(inv) == IF Len(inv) = 0 THEN 1 ELSE MaxId(inv)

generateId(inv) == IF Len(inv) = 0 THEN 1 ELSE MaxId(inv) + 1

\* inventory.findIndex((item) => Number(item.id) === id); 0 stands for -1
findIndex(inv, id) ==
  IF \E i \in 1..Len(inv) : inv[i].id = id
  THEN CHOOSE i \in 1..Len(inv) :
         inv[i].id = id /\ \A j \in 1..(i - 1) : inv[j].id # id
  ELSE 0

findItemById(inv, id) ==
  IF findIndex(inv, id) = 0 THEN NoItem ELSE inv[findIndex(inv, id)]

\* inventory.splice(index, 1)
splice(inv, index) ==
  [i \in 1..(Len(inv) - 1) |-> IF i < index THEN inv[i] ELSE inv[i + 1]]

\* multer filename: photo_<Date.now()>-<random><ext>, a name not used before
filename_Fixed(n) == 1

filename(n) == n + 1

\* fs.unlink(photoPath); a missing file is ignored
unlink_Nothing(dir, f) == dir

unlink(dir, f) == dir \ {f}

----------------------------------------------------------------------------
\* Connections

\* file: req.file.filename, or the photoFilename the handler holds across an await
\* data: the text saveInventory() is writing
Idle == [op |-> "none", pc |-> "idle", file |-> Null, data |-> <<>>]

NoResponse == [op |-> "none", file |-> Null, resp |-> 0]

\* the server takes a new request on the first free connection
Accept(p) ==
  /\ started < MaxRequests
  /\ req[p].pc = "idle"
  /\ \A q \in 1..(p - 1) : req[q].pc # "idle"

\* res.status(code).json(...): the connection is free again
Respond(p, op, file, code) ==
  /\ req' = [req EXCEPT ![p] = Idle]
  /\ last' = [op |-> op, file |-> file, resp |-> code]

\* the synchronous head of saveInventory(): serialize now, start the write
AwaitSave(p, op, file, inv) ==
  /\ req' = [req EXCEPT ![p] = [op |-> op, pc |-> "saving", file |-> file,
                                data |-> Stringify(inv)]]
  /\ UNCHANGED last

Init ==
  /\ inventory = <<>>
  /\ disk = Written(Stringify(<<>>))
  /\ photos = {}
  /\ nextFile = 0
  /\ req = [p \in Procs |-> Idle]
  /\ started = 0
  /\ last = NoResponse
  /\ hist = [pushes |-> 0, reg201 |-> 0, splices |-> 0,
             anyFailed |-> FALSE, diverged |-> FALSE]

----------------------------------------------------------------------------
\* upload.single('photo'): multer stores the file before the handler runs

Upload(p, op, hasFile) ==
  /\ Accept(p)
  /\ started' = started + 1
  /\ IF hasFile
     THEN /\ photos' = photos \cup {filename(nextFile)}
          /\ nextFile' = nextFile + 1
          /\ req' = [req EXCEPT ![p] = [Idle EXCEPT !.op = op, !.pc = "handler",
                                                    !.file = filename(nextFile)]]
     ELSE /\ req' = [req EXCEPT ![p] = [Idle EXCEPT !.op = op, !.pc = "handler"]]
          /\ UNCHANGED <<photos, nextFile>>
  /\ UNCHANGED <<inventory, disk, last, hist>>

----------------------------------------------------------------------------
\* POST /register

NameMissing(name) == ~Truthy(name) \/ Trim(name.val) = <<>>

NewItem(id, name, desc, file) ==
  [id |-> id,
   inventory_name |-> Trim(name.val),
   description |-> Trim(IF Truthy(desc) THEN desc.val ELSE <<>>),
   photoFilename |-> file]

RegisterHandler(p, name, desc) ==
  /\ req[p].op = "register" /\ req[p].pc = "handler"
  /\ IF NameMissing(name)
     THEN /\ Respond(p, "register", req[p].file, 400)
          /\ UNCHANGED <<inventory, hist>>
     ELSE LET id == generateId(inventory) IN
          /\ inventory' = Append(inventory, NewItem(id, name, desc, req[p].file))
          /\ AwaitSave(p, "register", req[p].file, inventory')
          /\ hist' = [hist EXCEPT !.pushes = @ + 1]
  /\ UNCHANGED <<disk, photos, nextFile, started>>

----------------------------------------------------------------------------
\* saveInventory(): the write started by a handler completes or fails

Reply(p, code) == [op |-> req[p].op, file |-> req[p].file, resp |-> code]

AfterSave(p) ==
  IF req[p].op = "delete" /\ req[p].file # Null
  THEN /\ req' = [req EXCEPT ![p] = [@ EXCEPT !.pc = "unlink", !.data = <<>>]]
       /\ UNCHANGED last
  ELSE /\ req' = [req EXCEPT ![p] = Idle]
       /\ last' = Reply(p, IF req[p].op = "register" THEN 201 ELSE 200)

\* fs.writeFile(INVENTORY_FILE, text, 'utf8') that completes
writeFile_Skip(old, text) == old

writeFile(old, text) == Written(text)

SaveLand(p) ==
  /\ req[p].pc = "saving"
  /\ disk' = writeFile(disk, req[p].data)
  /\ AfterSave(p)
  /\ hist' = [hist EXCEPT !.diverged = FALSE,
                          !.reg201 = IF req[p].op = "register" THEN @ + 1 ELSE @]
  /\ UNCHANGED <<inventory, photos, nextFile, started>>

\* only /register catches the rejection; the other handlers end without a response
AfterFailure(p) ==
  /\ req' = [req EXCEPT ![p] = Idle]
  /\ IF req[p].op = "register" THEN last' = Reply(p, 500) ELSE UNCHANGED last

SaveFail_Rollback(p, truncated) ==
  /\ req[p].pc = "saving"
  /\ disk' = IF truncated THEN Partial ELSE disk
  /\ AfterFailure(p)
  /\ hist' = [hist EXCEPT !.anyFailed = TRUE, !.diverged = TRUE]
  /\ inventory' = IF req[p].op = "register" /\ Len(inventory) > 0
                  THEN SubSeq(inventory, 1, Len(inventory) - 1)
                  ELSE inventory
  /\ UNCHANGED <<photos, nextFile, started>>

SaveFail(p, truncated) ==
  /\ req[p].pc = "saving"
  /\ disk' = IF truncated THEN Partial ELSE disk
  /\ AfterFailure(p)
  /\ hist' = [hist EXCEPT !.anyFailed = TRUE, !.diverged = TRUE]
  /\ UNCHANGED <<inventory, photos, nextFile, started>>

----------------------------------------------------------------------------
\* GET /inventory and GET /inventory/:id

List(p) ==
  /\ Accept(p)
  /\ started' = started + 1
  /\ Respond(p, "list", Null, 200)
  /\ UNCHANGED <<inventory, disk, photos, nextFile, hist>>

GetStatus(inv, id) ==
  IF id = NaN THEN 400
  ELSE IF findItemById(inv, id) = NoItem THEN 404 ELSE 200

Get(p, id) ==
  /\ Accept(p)
  /\ started' = started + 1
  /\ Respond(p, "get", Null, GetStatus(inventory, id))
  /\ UNCHANGED <<inventory, disk, photos, nextFile, hist>>

----------------------------------------------------------------------------
\* PUT /inventory/:id

updateFields_Defaulting(item, name, desc) ==
  [item EXCEPT
     !.inventory_name = IF name.present THEN Trim(name.val) ELSE @,
     !.description = Trim(IF Truthy(desc) THEN desc.val ELSE <<>>)]

updateFields(item, name, desc) ==
  [item EXCEPT
     !.inventory_name = IF name.present THEN Trim(name.val) ELSE @,
     !.description = IF desc.present THEN Trim(desc.val) ELSE @]

Update(p, id, name, desc) ==
  /\ Accept(p)
  /\ started' = started + 1
  /\ IF GetStatus(inventory, id) # 200
     THEN /\ Respond(p, "update", Null, GetStatus(inventory, id))
          /\ UNCHANGED inventory
     ELSE /\ inventory' = [inventory EXCEPT ![findIndex(inventory, id)] =
                                              updateFields(@, name, desc)]
          /\ AwaitSave(p, "update", Null, inventory')
  /\ UNCHANGED <<disk, photos, nextFile, hist>>

----------------------------------------------------------------------------
\* GET /inventory/:id/photo

GetPhotoStatus(inv, id) ==
  IF id = NaN THEN 400
  ELSE IF findItemById(inv, id).photoFilename = Null THEN 404 ELSE 200

GetPhoto(p, id) ==
  /\ Accept(p)
  /\ started' = started + 1
  /\ IF GetPhotoStatus(inventory, id) # 200
     THEN Respond(p, "getPhoto", Null, GetPhotoStatus(inventory, id))
     ELSE /\ req' = [req EXCEPT ![p] =
                       [Idle EXCEPT !.op = "getPhoto", !.pc = "reading",
                                    !.file = findItemById(inventory, id).photoFilename]]
          /\ UNCHANGED last
  /\ UNCHANGED <<inventory, disk, photos, nextFile, hist>>

\* fs.readFile(filePath): ENOENT gives 404
GetPhotoRead(p) ==
  /\ req[p].pc = "reading"
  /\ Respond(p, "getPhoto", req[p].file,
             IF req[p].file \in photos THEN 200 ELSE 404)
  /\ UNCHANGED <<inventory, disk, photos, nextFile, started, hist>>

----------------------------------------------------------------------------
\* PUT /inventory/:id/photo

ReplacePhotoHandler(p, id) ==
  /\ req[p].op = "replacePhoto" /\ req[p].pc = "handler"
  /\ IF GetStatus(inventory, id) # 200
     THEN /\ Respond(p, "replacePhoto", req[p].file, GetStatus(inventory, id))
          /\ UNCHANGED inventory
     ELSE IF req[p].file = Null
     THEN /\ Respond(p, "replacePhoto", Null, 400)
          /\ UNCHANGED inventory
     ELSE /\ inventory' = [inventory EXCEPT ![findIndex(inventory, id)].photoFilename =
                                              req[p].file]
          /\ AwaitSave(p, "replacePhoto", req[p].file, inventory')
  /\ UNCHANGED <<disk, photos, nextFile, started, hist>>

----------------------------------------------------------------------------
\* DELETE /inventory/:id

Delete(p, id) ==
  /\ Accept(p)
  /\ started' = started + 1
  /\ IF GetStatus(inventory, id) # 200
     THEN /\ Respond(p, "delete", Null, GetStatus(inventory, id))
          /\ UNCHANGED <<inventory, hist>>
     ELSE /\ inventory' = splice(inventory, findIndex(inventory, id))
          /\ AwaitSave(p, "delete", findItemById(inventory, id).photoFilename, inventory')
          /\ hist' = [hist EXCEPT !.splices = @ + 1]
  /\ UNCHANGED <<disk, photos, nextFile>>

DeleteUnlink(p) ==
  /\ req[p].pc = "unlink"
  /\ photos' = unlink(photos, req[p].file)
  /\ req' = [req EXCEPT ![p] = Idle]
  /\ last' = Reply(p, 200)
  /\ UNCHANGED <<inventory, disk, nextFile, started, hist>>

----------------------------------------------------------------------------
\* POST /search

WantsLink(item, flag) ==
  /\ Truthy(flag)
  /\ item.photoFilename # Null
  /\ ~Includes(item.description, LinkText(item.id))

Search(p, id, flag) ==
  /\ Accept(p)
  /\ started' = started + 1
  /\ IF GetStatus(inventory, id) # 200
     THEN /\ Respond(p, "search", Null, GetStatus(inventory, id))
          /\ UNCHANGED inventory
     ELSE IF WantsLink(findItemById(inventory, id), flag)
     THEN /\ inventory' = [inventory EXCEPT ![findIndex(inventory, id)].description =
                                              @ \o LinkText(id)]
          /\ AwaitSave(p, "search", Null, inventory')
     ELSE /\ Respond(p, "search", Null, 200)
          /\ UNCHANGED inventory
  /\ UNCHANGED <<disk, photos, nextFile, hist>>

----------------------------------------------------------------------------

Next ==
  \/ \E p \in Procs, op \in {"register", "replacePhoto"}, hasFile \in BOOLEAN :
       Upload(p, op, hasFile)
  \/ \E p \in Procs, name \in NameInputs, desc \in DescInputs :
       RegisterHandler(p, name, desc)
  \/ \E p \in Procs : SaveLand(p)
  \/ \E p \in Procs, truncated \in BOOLEAN : SaveFail(p, truncated)
  \/ \E p \in Procs : List(p)
  \/ \E p \in Procs, id \in IdInputs : Get(p, id)
  \/ \E p \in Procs, id \in IdInputs, name \in NameInputs, desc \in DescInputs :
       Update(p, id, name, desc)
  \/ \E p \in Procs, id \in IdInputs : GetPhoto(p, id)
  \/ \E p \in Procs : GetPhotoRead(p)
  \/ \E p \in Procs, id \in IdInputs : ReplacePhotoHandler(p, id)
  \/ \E p \in Procs, id \in IdInputs : Delete(p, id)
  \/ \E p \in Procs : DeleteUnlink(p)
  \/ \E p \in Procs, id \in IdInputs, flag \in FlagInputs : Search(p, id, flag)

Spec == Init /\ [][Next]_vars

----------------------------------------------------------------------------
\* Properties

Snapshot(inv) == Written(Stringify(inv))

SaveInFlight == \E p \in Procs : req[p].pc = "saving"

Count(s, t) ==
  Cardinality({i \in 0..(Len(s) - Len(t)) : SubSeq(s, i + 1, i + Len(t)) = t})

Ids == 1..(MaxRequests + 1)

\* C1: whenever no save is in flight and no save has failed, inventory.json
\* holds the serialization of the current in-memory inventory.
C1_SnapshotEqualsMemory ==
  (~SaveInFlight /\ ~hist.anyFailed) => disk = Snapshot(inventory)

\* C2: after N Register requests that all succeeded and no Delete, the store
\* holds exactly N items and the i-th item of the list has id i.
C2_IdsOneToN ==
  (hist.splices = 0 /\ hist.pushes = hist.reg201) =>
     /\ Len(inventory) = hist.reg201
     /\ \A i \in 1..Len(inventory) : inventory[i].id = i

C2_Witness ==
  hist.splices = 0 /\ hist.pushes = hist.reg201 /\ hist.reg201 >= 2

\* C3: a Register request with a missing, empty or blank inventory_name is
\* answered 400 and leaves the inventory, the snapshot and the photo directory
\* as they were before the request: the file it carried is not among the blobs.
C3_RejectedRegisterChangesNothing ==
  [][\A p \in Procs, name \in NameInputs, desc \in DescInputs :
       (RegisterHandler(p, name, desc) /\ NameMissing(name)) =>
          /\ last'.resp = 400
          /\ inventory' = inventory
          /\ disk' = disk
          /\ req[p].file # Null => req[p].file \notin photos']_vars

SearchStep(p) ==
  /\ req[p].pc = "idle"
  /\ started' = started + 1
  /\ req'[p].op = "search" \/ last'.op = "search"

C7_NamesNonEmpty ==
  \A i \in 1..Len(inventory) :
    /\ inventory[i].inventory_name # <<>>
    /\ Trim(inventory[i].inventory_name) = inventory[i].inventory_name

DuplicateIds ==
  \E i, j \in 1..Len(inventory) : i # j /\ inventory[i].id = inventory[j].id

RegistersOverlap ==
  \E p, q \in Procs :
    /\ p # q
    /\ req[p].op = "register" /\ req[p].pc = "saving"
    /\ req[q].op = "register" /\ req[q].pc = "saving"

\* C8 as stated: Register handlers that interleave compute the same id, so
\* once two of them have inserted the store holds two items with one id.
C8_OverlappingRegistersCollide == RegistersOverlap => DuplicateIds

\* C8 amended: generateId() and inventory.push() run in one synchronous
\* block, so the ids in the store are pairwise distinct in every state.
C8_IdsUnique == ~DuplicateIds

C8_Witness == RegistersOverlap /\ Len(inventory) >= 2

\* C9 as stated: a failed save leaves the mutation in memory (Register is
\* answered 500), snapshot and memory differ until the next save succeeds,
\* and when it does they are equal.
C9_DivergeUntilNextSave ==
  [][/\ \A p \in Procs, truncated \in BOOLEAN :
          SaveFail(p, truncated) =>
             /\ inventory' = inventory
             /\ req[p].op = "register" => last'.resp = 500
     /\ hist'.diverged => disk' # Snapshot(inventory')
     /\ \A p \in Procs :
          (SaveLand(p) /\ hist.diverged) => disk' = Snapshot(inventory')]_vars

\* C9 amended: a failed save leaves the mutation in memory (Register is
\* answered 500) and never brings the snapshot up to date; the snapshot
\* changes only when a write lands or fails; a save that succeeds writes the
\* text serialized when it started, which is the current memory if nothing
\* was mutated since.
C9_NoRollback ==
  [][/\ \A p \in Procs, truncated \in BOOLEAN :
          SaveFail(p, truncated) =>
             /\ inventory' = inventory
             /\ req[p].op = "register" => last'.resp = 500
             /\ disk # Snapshot(inventory) => disk' # Snapshot(inventory')
     /\ disk' # disk => \E p \in Procs : SaveLand(p) \/ SaveFail(p, TRUE)
     /\ \A p \in Procs :
          SaveLand(p) =>
             /\ disk' = Written(req[p].data)
             /\ req[p].data = Stringify(inventory) => disk' = Snapshot(inventory')]_vars

\* a Register was answered 500, its item is in memory and not in the snapshot
C9_Witness ==
  /\ last.op = "register" /\ last.resp = 500
  /\ hist.diverged
  /\ Len(inventory) > 0
  /\ disk # Snapshot(inventory)

====
